---- MODULE Spec2Model ----
(***************************************************************************)
(* State-machine model of the page builder in                              *)
(* src/src/components/DragAndDropDemo.tsx (lines 1-457, the exported       *)
(* component): the item tree held in containerItems, the palette held in   *)
(* availableItems, the selection, and the payload of the drag gesture in   *)
(* progress, driven by the react-dnd hover/drop callbacks and by the click *)
(* and property-edit handlers.                                             *)
(*                                                                         *)
(* Representation.                                                         *)
(*   - An ItemType is a record [id, type, props, children].  ids are       *)
(*     positive integers; 0 stands for the null parentId.                  *)
(*   - props is a total map over PropKeys; the value "undefined" stands    *)
(*     for a key that is absent from the JavaScript object.                *)
(*   - children is always a sequence: every item the program constructs    *)
(*     carries an array (lines 309, 339, 416), so the `: []` fallbacks of  *)
(*     removeItem/addItem are never taken.                                 *)
(*   - A nullable object (selectedItem, the dragged payload) is a sequence *)
(*     of length 0 or 1.                                                   *)
(*   - uuidv4() returns an identifier that has never been handed out.  Ids *)
(*     are only ever compared for equality, so the model returns the least *)
(*     identifier that no value kept by the step refers to: the tree and   *)
(*     the dragged payload (the selection is a node of the tree).  Every   *)
(*     step that generates an id also replaces the palette, so the ids of  *)
(*     the replaced palette are referred to by nothing afterwards.         *)
(*   - moveItem stores the payload record, parentId field included, in the *)
(*     tree.  That extra field of a stored node is never read (useDrag     *)
(*     overwrites it with the parentId prop, line 120), so stored nodes    *)
(*     omit it.                                                            *)
(***************************************************************************)
EXTENDS Integers, Sequences, FiniteSets, TLC

VARIABLES
    containerItems,   \* useState<ItemType[]>([])            (line 312)
    availableItems,   \* useState<ItemType[]>(initialItems)  (line 311)
    selectedItem,     \* useState<ItemType | null>(null)     (line 313)
    dragged,          \* react-dnd monitor.getItem(): << >> or <<DraggedItem>>
    last,             \* history: the event handled by the latest step
    call              \* history: the latest application of a tree function
                      \* (FnSpec, EditSpec); the start of the drag (GestureSpec,
                      \* PaletteGestureSpec); the event and the effects that
                      \* React has scheduled after it (EffectSpec)

vars == <<containerItems, availableItems, selectedItem, dragged, last, call>>

----------------------------------------------------------------------------
(* Bounds of the model                                                     *)

\* A drag of a canvas item starts only while the tree has at most this many
\* nodes, a drag of a palette item only while it has fewer.
MaxNodes == 3
\* Height of a hover target's bounding rectangle (pointer y ranges 0..height).
HoverHeight == 2
\* Total number of props entries that property edits may set in the tree.
MaxProps == 1
\* Trees given to the tree functions have at most this many nodes.
MaxTreeNodes == 3
\* Total number of props entries that repeated applications of updateItemProps
\* may set in one tree.
MaxFnProps == 2

\* Palette entries (indices into componentDefinitions) that the inputs drag,
\* hover and click: one leaf type (Button) and one container type (Div).
PaletteIdx == {1, 4}
\* Values typed into the property editor.
PropValues == {"a"}
\* Ids and types of the trees given to the tree functions; AbsentId occurs in
\* none of them.
TreeIds == 1..MaxTreeNodes
TreeTypes == {"Button", "Div"}
AbsentId == MaxTreeNodes + 1
\* Keys and values given to updateItemProps: "text" is an editable prop of
\* Button, "other" is an editable prop of no type.
FnKeys == {"text", "other"}
FnValues == {"a", "b"}

----------------------------------------------------------------------------
(* Component registry (lines 16-57)                                        *)

componentDefinitions ==
    << [type |-> "Button", canHaveChildren |-> FALSE, editableProps |-> {"text"}],
       [type |-> "Input",  canHaveChildren |-> FALSE, editableProps |-> {"placeholder"}],
       [type |-> "Text",   canHaveChildren |-> FALSE, editableProps |-> {"text"}],
       [type |-> "Div",    canHaveChildren |-> TRUE,  editableProps |-> {}],
       [type |-> "Row",    canHaveChildren |-> TRUE,  editableProps |-> {}],
       [type |-> "Column", canHaveChildren |-> TRUE,  editableProps |-> {}] >>

Types == { componentDefinitions[i].type : i \in 1..Len(componentDefinitions) }

DefOf(t) == CHOOSE d \in { componentDefinitions[i] : i \in 1..Len(componentDefinitions) } : d.type = t

\* Variant of canHaveChildren that lets every type have children.
canHaveChildren_everyType == [t \in Types |-> TRUE]

canHaveChildren == [t \in Types |-> DefOf(t).canHaveChildren]

editableProps == [t \in Types |-> DefOf(t).editableProps]

PropKeys == {"text", "placeholder", "other"}

\* props: {}
NoProps == [k \in PropKeys |-> "undefined"]

----------------------------------------------------------------------------
(* Observers of a tree (model helpers)                                     *)

RECURSIVE NodeCount(_)
NodeCount(items) ==
    IF items = << >> THEN 0
    ELSE 1 + NodeCount(Head(items).children) + NodeCount(Tail(items))

\* The ids of a tree in depth-first pre-order.
RECURSIVE IdSeq(_)
IdSeq(items) ==
    IF items = << >> THEN << >>
    ELSE <<Head(items).id>> \o IdSeq(Head(items).children) \o IdSeq(Tail(items))

Range(s) == { s[i] : i \in 1..Len(s) }

IdsOf(items) == Range(IdSeq(items))

\* The positions of the rendered DraggableItems: non-empty index paths.
RECURSIVE Paths(_)
Paths(items) ==
    UNION { {<<i>>} \cup { <<i>> \o p : p \in Paths(items[i].children) } : i \in 1..Len(items) }

RECURSIVE NodeAt(_, _)
NodeAt(items, path) ==
    IF Len(path) = 1 THEN items[path[1]]
    ELSE NodeAt(items[path[1]].children, Tail(path))

\* The parentId prop a DraggableItem at `path` is rendered with (lines 154, 187).
ParentIdAt(items, path) ==
    IF Len(path) = 1 THEN 0
    ELSE NodeAt(items, SubSeq(path, 1, Len(path) - 1)).id

----------------------------------------------------------------------------
(* Tree functions                                                          *)

\* Variant of removeItem that filters the root sequence only.
removeItem_rootOnly(items, id) ==
    LET keep(item) == item.id # id
    IN  SelectSeq(items, keep)

\* Variant of removeItem that resets the children of the items it keeps.
removeItem_dropsChildren(items, id) ==
    LET mapped == [i \in 1..Len(items) |-> [items[i] EXCEPT !.children = << >>]]
        keep(item) == item.id # id
    IN  SelectSeq(mapped, keep)

\* handleTrashDrop.removeItem (lines 376-383)
RECURSIVE removeItem(_, _)
removeItem(items, id) ==
    LET mapped == [i \in 1..Len(items) |->
                      [items[i] EXCEPT !.children = removeItem(items[i].children, id)]]
        keep(item) == item.id # id
    IN  SelectSeq(mapped, keep)

\* moveItem.removeItem (lines 317-324)
RECURSIVE moveItem_removeItem(_, _)
moveItem_removeItem(items, id) ==
    LET mapped == [i \in 1..Len(items) |->
                      [items[i] EXCEPT !.children = moveItem_removeItem(items[i].children, id)]]
        keep(item) == item.id # id
    IN  SelectSeq(mapped, keep)

\* Variant of addItem that puts the new item in front of its siblings.
RECURSIVE addItem_prepends(_, _, _)
addItem_prepends(items, newItem, parentId) ==
    IF parentId = 0
    THEN Append(items, newItem)
    ELSE [i \in 1..Len(items) |->
             [items[i] EXCEPT !.children =
                 IF items[i].id = parentId
                 THEN <<newItem>> \o items[i].children
                 ELSE addItem_prepends(items[i].children, newItem, parentId)]]

\* Variant of addItem that falls back to the root when no item has parentId.
RECURSIVE addItem_rootFallback(_, _, _)
addItem_rootFallback(items, newItem, parentId) ==
    LET under == [i \in 1..Len(items) |->
                     [items[i] EXCEPT !.children =
                         IF items[i].id = parentId
                         THEN Append(items[i].children, newItem)
                         ELSE addItem_rootFallback(items[i].children, newItem, parentId)]]
    IN  IF parentId = 0 \/ under = items THEN Append(items, newItem) ELSE under

\* moveItem.addItem (lines 326-336); parentId 0 is null
RECURSIVE addItem(_, _, _)
addItem(items, newItem, parentId) ==
    IF parentId = 0
    THEN Append(items, newItem)
    ELSE [i \in 1..Len(items) |->
             [items[i] EXCEPT !.children =
                 IF items[i].id = parentId
                 THEN Append(items[i].children, newItem)
                 ELSE addItem(items[i].children, newItem, parentId)]]

\* Variant of ItemOf that builds a fresh item without the payload's children.
ItemOf_withoutChildren(draggedItem) ==
    [id |-> draggedItem.id, type |-> draggedItem.type,
     props |-> draggedItem.props, children |-> << >>]

\* { ...draggedItem, children: draggedItem.children || [] } (line 339)
ItemOf(draggedItem) ==
    [id |-> draggedItem.id, type |-> draggedItem.type,
     props |-> draggedItem.props, children |-> draggedItem.children]

\* The state updater of moveItem (lines 316-340)
moveItem(prevItems, draggedItem, newParentId) ==
    LET removedItems == moveItem_removeItem(prevItems, draggedItem.id)
    IN  addItem(removedItems, ItemOf(draggedItem), newParentId)

\* findItemById (lines 344-357): << >> is null
RECURSIVE findItemById(_, _)
findItemById(items, id) ==
    IF items = << >> THEN << >>
    ELSE LET item == Head(items)
         IN  IF item.id = id THEN <<item>>
             ELSE LET found == findItemById(item.children, id)
                  IN  IF found # << >> THEN found
                      ELSE findItemById(Tail(items), id)

\* Variant of updateItemProps that builds the new props from the edited key alone.
RECURSIVE updateItemProps_replacesProps(_, _, _, _)
updateItemProps_replacesProps(items, selId, key, value) ==
    [i \in 1..Len(items) |->
        IF items[i].id = selId
        THEN [items[i] EXCEPT !.props = [NoProps EXCEPT ![key] = value]]
        ELSE [items[i] EXCEPT !.children =
                 updateItemProps_replacesProps(items[i].children, selId, key, value)]]

\* updateItemProps (lines 400-410)
RECURSIVE updateItemProps(_, _, _, _)
updateItemProps(items, selId, key, value) ==
    [i \in 1..Len(items) |->
        IF items[i].id = selId
        THEN [items[i] EXCEPT !.props = [items[i].props EXCEPT ![key] = value]]
        ELSE [items[i] EXCEPT !.children = updateItemProps(items[i].children, selId, key, value)]]

\* Array.prototype.join('') on an array of strings
RECURSIVE join(_)
join(strings) ==
    IF Len(strings) = 0 THEN "" ELSE Head(strings) \o join(Tail(strings))

\* Variant of renderElement that leaves the children out.
renderElement_withoutChildren(item) ==
    "<" \o item.type \o ">" \o "</" \o item.type \o ">"

\* Variant of renderElement that writes the text prop in front of the children.
RECURSIVE renderElement_withText(_)
renderElement_withText(item) ==
    LET childrenHtml ==
            join([i \in 1..Len(item.children) |-> renderElement_withText(item.children[i])])
        text == IF item.props["text"] = "undefined" THEN "" ELSE item.props["text"]
    IN  "<" \o item.type \o ">" \o text \o childrenHtml \o "</" \o item.type \o ">"

\* renderHtml.renderElement (lines 241-244)
RECURSIVE renderElement(_)
renderElement(item) ==
    LET childrenHtml ==
            join([i \in 1..Len(item.children) |-> renderElement(item.children[i])])
    IN  "<" \o item.type \o ">" \o childrenHtml \o "</" \o item.type \o ">"

\* renderHtml (lines 240-247)
renderHtml(items) == join([i \in 1..Len(items) |-> renderElement(items[i])])

----------------------------------------------------------------------------
(* Identifier generation and the palette                                   *)

\* uuidv4(): the k-th least identifier outside `used`
uuidv4(used, k) ==
    CHOOSE i \in 1..(Cardinality(used) + k) :
        /\ i \notin used
        /\ Cardinality({ j \in 1..(i - 1) : j \notin used }) = k - 1

\* componentDefinitions.map(def => ({ id: uuidv4(), type, props: {}, children: [] }))
\* (lines 309 and 416)
initialItems(used) ==
    [i \in 1..Len(componentDefinitions) |->
        [id |-> uuidv4(used, i), type |-> componentDefinitions[i].type,
         props |-> NoProps, children |-> << >>]]

\* Ids the dragged payload refers to.
PayloadIds(d) == IF d = << >> THEN {} ELSE {d[1].id} \cup IdsOf(d[1].children)

\* Variant of Reselect that keeps the selected object as it is.
Reselect_keepsObject(items, sel) == sel

\* The selection effect (lines 359-362), run to its fixpoint.
Reselect(items, sel) ==
    IF sel = << >> THEN << >> ELSE findItemById(items, sel[1].id)

----------------------------------------------------------------------------
(* History records                                                         *)

\* The event a step handles: `changed` tells whether the step produced a
\* different tree, `deselected` whether it took the selection from a node to
\* none.  Event is for the steps that leave the selection alone.
\* `html` is the text a step shows in its alert.
Event(op, origin, changed) ==
    [op |-> op, origin |-> origin, changed |-> changed, deselected |-> FALSE,
     html |-> ""]

SelectionEvent(op, origin, changed) ==
    [op |-> op, origin |-> origin, changed |-> changed,
     deselected |-> selectedItem # << >> /\ selectedItem' = << >>,
     html |-> ""]

\* `pending`, `sameObject` and `parity` are for the effects when they run as
\* steps of their own (EffectSpec).
NoCall ==
    [fn |-> "none", items |-> << >>, id |-> 0, newItem |-> << >>,
     parentId |-> 0, key |-> "", value |-> "", result |-> << >>, html |-> "",
     pending |-> {}, sameObject |-> TRUE, parity |-> 0]

----------------------------------------------------------------------------
(* The application                                                         *)

Init ==
    /\ containerItems = << >>
    /\ availableItems = initialItems({})
    /\ selectedItem = << >>
    /\ dragged = << >>
    /\ last = Event("init", "none", FALSE)
    /\ call = NoCall

\* Variant of SetContainerItems without the effect that regenerates the palette.
SetContainerItems_keepsPalette(items, d) ==
    /\ containerItems' = items
    /\ selectedItem' = Reselect(items, selectedItem)
    /\ UNCHANGED availableItems

\* setContainerItems with a new array, followed by the effects that depend on
\* containerItems: the selection is re-resolved (lines 343-363) and the palette
\* is regenerated (lines 415-417).
SetContainerItems(items, d) ==
    /\ containerItems' = items
    /\ selectedItem' = Reselect(items, selectedItem)
    /\ availableItems' = initialItems(IdsOf(items) \cup PayloadIds(d))

\* useDrag on a palette DraggableItem (lines 118-124, 429)
DragStartPalette(i) ==
    /\ dragged = << >>
    /\ NodeCount(containerItems) < MaxNodes
    /\ LET item == availableItems[i]
       IN  dragged' = <<[id |-> item.id, type |-> item.type, props |-> item.props,
                         children |-> item.children, parentId |-> 0,
                         origin |-> "palette"]>>
    /\ last' = Event("dragStart", "palette", FALSE)
    /\ UNCHANGED <<containerItems, availableItems, selectedItem, call>>

\* useDrag on a DraggableItem of the canvas (lines 118-124, 154, 187)
DragStartNode(path) ==
    /\ dragged = << >>
    /\ NodeCount(containerItems) <= MaxNodes
    /\ LET item == NodeAt(containerItems, path)
       IN  dragged' = <<[id |-> item.id, type |-> item.type, props |-> item.props,
                         children |-> item.children,
                         parentId |-> ParentIdAt(containerItems, path),
                         origin |-> "tree"]>>
    /\ last' = Event("dragStart", "tree", FALSE)
    /\ UNCHANGED <<containerItems, availableItems, selectedItem, call>>

\* Variant of LowerHalf that counts the midpoint as the lower half.
LowerHalf_orMidpoint(hoverClientY) == 2 * hoverClientY >= HoverHeight

\* hoverClientY > hoverMiddleY (lines 103-107, 111) for a bounding rectangle of
\* height HoverHeight: hoverMiddleY is half the height.
LowerHalf(hoverClientY) == 2 * hoverClientY > HoverHeight

\* Variant of Hover whose guard compares the payload's id only.
Hover_noParentGuard(path, hasGeometry, hoverClientY) ==
    /\ dragged # << >>
    /\ LET draggedItem == dragged[1]
           item == NodeAt(containerItems, path)
       IN  IF /\ hasGeometry
              /\ draggedItem.id # item.id
              /\ LowerHalf(hoverClientY)
              /\ canHaveChildren[item.type]
           THEN LET items == moveItem(containerItems, draggedItem, item.id)
                    d == <<[draggedItem EXCEPT !.parentId = item.id]>>
                IN  /\ dragged' = d
                    /\ SetContainerItems(items, d)
                    /\ last' = SelectionEvent("hover", draggedItem.origin, items # containerItems)
           ELSE /\ UNCHANGED <<containerItems, availableItems, selectedItem, dragged>>
                /\ last' = Event("hover", draggedItem.origin, FALSE)
    /\ UNCHANGED call

\* Variant of Hover that leaves the payload's parentId as it is.
Hover_keepsParentId(path, hasGeometry, hoverClientY) ==
    /\ dragged # << >>
    /\ LET draggedItem == dragged[1]
           item == NodeAt(containerItems, path)
       IN  IF /\ hasGeometry
              /\ ~(draggedItem.id = item.id \/ draggedItem.parentId = item.id)
              /\ LowerHalf(hoverClientY)
              /\ canHaveChildren[item.type]
           THEN LET items == moveItem(containerItems, draggedItem, item.id)
                IN  /\ dragged' = dragged
                    /\ SetContainerItems(items, dragged)
                    /\ last' = SelectionEvent("hover", draggedItem.origin, items # containerItems)
           ELSE /\ UNCHANGED <<containerItems, availableItems, selectedItem, dragged>>
                /\ last' = Event("hover", draggedItem.origin, FALSE)
    /\ UNCHANGED call

\* DraggableItem.hover of a canvas item (lines 101-115); hasGeometry is FALSE
\* when ref.current or the client offset is missing.  The event is named
\* "hoverGuard" when the return of line 109 alone kept the hover from moving
\* the payload, and "hoverUpper" when the pointer, with geometry at hand, was
\* at or above the midpoint of the target.
Hover(path, hasGeometry, hoverClientY) ==
    /\ dragged # << >>
    /\ LET draggedItem == dragged[1]
           item == NodeAt(containerItems, path)
       IN  IF /\ hasGeometry
              /\ ~(draggedItem.id = item.id \/ draggedItem.parentId = item.id)
              /\ LowerHalf(hoverClientY)
              /\ canHaveChildren[item.type]
           THEN LET items == moveItem(containerItems, draggedItem, item.id)
                    d == <<[draggedItem EXCEPT !.parentId = item.id]>>
                IN  /\ dragged' = d
                    /\ SetContainerItems(items, d)
                    /\ last' = SelectionEvent("hover", draggedItem.origin, items # containerItems)
           ELSE /\ UNCHANGED <<containerItems, availableItems, selectedItem, dragged>>
                /\ last' = Event(IF /\ hasGeometry
                                    /\ LowerHalf(hoverClientY)
                                    /\ canHaveChildren[item.type]
                                 THEN "hoverGuard"
                                 ELSE IF hasGeometry /\ ~LowerHalf(hoverClientY)
                                      THEN "hoverUpper" ELSE "hover",
                                 draggedItem.origin, FALSE)
    /\ UNCHANGED call

\* DraggableItem.hover of a palette item, whose moveItem is () => {} (line 429)
HoverPalette(i, hasGeometry, hoverClientY) ==
    /\ dragged # << >>
    /\ LET draggedItem == dragged[1]
           item == availableItems[i]
       IN  /\ IF /\ hasGeometry
                 /\ ~(draggedItem.id = item.id \/ draggedItem.parentId = item.id)
                 /\ LowerHalf(hoverClientY)
                 /\ canHaveChildren[item.type]
              THEN dragged' = <<[draggedItem EXCEPT !.parentId = item.id]>>
              ELSE UNCHANGED dragged
           /\ last' = Event("hoverPalette", draggedItem.origin, FALSE)
    /\ UNCHANGED <<containerItems, availableItems, selectedItem, call>>

\* Variant of handleDrop that appends the payload under its own id.
handleDrop_keepsId(prevItems, droppedItem, uuid) ==
    IF ~(\E i \in 1..Len(prevItems) : prevItems[i].id = droppedItem.id)
    THEN Append(prevItems, ItemOf(droppedItem))
    ELSE prevItems

\* The state updater of handleDrop (lines 366-371)
handleDrop(prevItems, droppedItem, uuid) ==
    IF ~(\E i \in 1..Len(prevItems) : prevItems[i].id = droppedItem.id)
    THEN Append(prevItems, [ItemOf(droppedItem) EXCEPT !.id = uuid])
    ELSE prevItems

\* Container.drop with monitor.didDrop() false (lines 166-170): a release over
\* the canvas background, which runs handleDrop.
DropCanvas ==
    /\ dragged # << >>
    /\ LET droppedItem == dragged[1]
           used == IdsOf(containerItems) \cup PayloadIds(dragged)
           items == handleDrop(containerItems, droppedItem, uuidv4(used, 1))
       IN  /\ IF items # containerItems
              THEN SetContainerItems(items, << >>)
              ELSE UNCHANGED <<containerItems, availableItems, selectedItem>>
           /\ last' = SelectionEvent("canvasDrop", droppedItem.origin, items # containerItems)
    /\ dragged' = << >>
    /\ UNCHANGED call

\* Variant of DropNode in which the canvas runs handleDrop all the same.
DropNode_runsHandleDrop ==
    /\ dragged # << >>
    /\ LET droppedItem == dragged[1]
           used == IdsOf(containerItems) \cup PayloadIds(dragged)
           items == handleDrop(containerItems, droppedItem, uuidv4(used, 1))
       IN  /\ IF items # containerItems
              THEN SetContainerItems(items, << >>)
              ELSE UNCHANGED <<containerItems, availableItems, selectedItem>>
           /\ last' = SelectionEvent("nodeDrop", droppedItem.origin, items # containerItems)
    /\ dragged' = << >>
    /\ UNCHANGED call

\* A release over a DraggableItem (canvas or palette): the item is a drop
\* target without a drop handler, monitor.didDrop() is true when Container.drop
\* runs (lines 166-170), so handleDrop is not called.
DropNode ==
    /\ dragged # << >>
    /\ dragged' = << >>
    /\ last' = Event("nodeDrop", dragged[1].origin, FALSE)
    /\ UNCHANGED <<containerItems, availableItems, selectedItem, call>>

\* Variant of DragCancel that takes the payload's node out of the tree.
DragCancel_removesPayload ==
    /\ dragged # << >>
    /\ LET items == moveItem_removeItem(containerItems, dragged[1].id)
       IN  /\ SetContainerItems(items, << >>)
           /\ last' = SelectionEvent("cancel", dragged[1].origin, items # containerItems)
    /\ dragged' = << >>
    /\ UNCHANGED call

\* A release outside every drop target: no drop handler runs, and useDrag
\* (lines 118-124) has no end handler.
DragCancel ==
    /\ dragged # << >>
    /\ dragged' = << >>
    /\ last' = Event("cancel", dragged[1].origin, FALSE)
    /\ UNCHANGED <<containerItems, availableItems, selectedItem, call>>

\* Variant of handleTrashDrop that ignores payloads taken from the palette.
handleTrashDrop_treeOnly(prevItems, droppedItem) ==
    IF droppedItem.origin = "palette" THEN prevItems
    ELSE removeItem(prevItems, droppedItem.id)

\* TrashBin.drop (lines 198-200) running handleTrashDrop (lines 374-386)
handleTrashDrop(prevItems, droppedItem) == removeItem(prevItems, droppedItem.id)

DropTrash ==
    /\ dragged # << >>
    /\ LET items == handleTrashDrop(containerItems, dragged[1])
       IN  /\ SetContainerItems(items, << >>)
           /\ last' = SelectionEvent("trashDrop", dragged[1].origin, items # containerItems)
    /\ dragged' = << >>
    /\ UNCHANGED call

\* Variant of handleItemClick that selects the clicked item in every case.
handleItemClick_alwaysSelects(sel, item) == <<item>>

\* handleItemClick (lines 394-396) followed by the selection effect
handleItemClick(sel, item) ==
    IF sel # << >> /\ sel[1].id = item.id THEN << >> ELSE <<item>>

Click(path) ==
    /\ dragged = << >>
    /\ selectedItem' = Reselect(containerItems,
                                handleItemClick(selectedItem, NodeAt(containerItems, path)))
    /\ last' = SelectionEvent("click", "none", FALSE)
    /\ UNCHANGED <<containerItems, availableItems, dragged, call>>

\* A click on a palette DraggableItem, rendered with the same handler (line 429)
ClickPalette(i) ==
    /\ dragged = << >>
    /\ selectedItem' = Reselect(containerItems,
                                handleItemClick(selectedItem, availableItems[i]))
    /\ last' = SelectionEvent("clickPalette", "none", FALSE)
    /\ UNCHANGED <<containerItems, availableItems, dragged, call>>

\* The number of props entries set in a tree.
RECURSIVE PropsCount(_)
PropsCount(items) ==
    IF items = << >> THEN 0
    ELSE Cardinality({ k \in PropKeys : Head(items).props[k] # "undefined" })
         + PropsCount(Head(items).children) + PropsCount(Tail(items))

\* handlePropertyChange (lines 398-413), called by the inputs that
\* EditableProperties renders for the selected item (lines 296-301)
handlePropertyChange(key, value) ==
    /\ dragged = << >>
    /\ selectedItem # << >>
    /\ key \in editableProps[selectedItem[1].type]
    /\ \/ selectedItem[1].props[key] # "undefined"
       \/ PropsCount(containerItems) < MaxProps
    /\ LET items == updateItemProps(containerItems, selectedItem[1].id, key, value)
       IN  /\ SetContainerItems(items, << >>)
           /\ last' = SelectionEvent("propertyChange", "none", items # containerItems)
    /\ UNCHANGED <<dragged, call>>

\* handlePrintHtml (lines 388-392): the alert shows renderHtml(containerItems)
handlePrintHtml ==
    /\ dragged = << >>
    /\ last' = [Event("printHtml", "none", FALSE) EXCEPT !.html = renderHtml(containerItems)]
    /\ UNCHANGED <<containerItems, availableItems, selectedItem, dragged, call>>

Next ==
    \/ \E i \in PaletteIdx : DragStartPalette(i)
    \/ \E path \in Paths(containerItems) : DragStartNode(path)
    \/ \E path \in Paths(containerItems), g \in BOOLEAN, y \in 0..HoverHeight :
          Hover(path, g, y)
    \/ \E i \in PaletteIdx, g \in BOOLEAN, y \in 0..HoverHeight :
          HoverPalette(i, g, y)
    \/ DropCanvas
    \/ DropNode
    \/ DragCancel
    \/ DropTrash
    \/ \E path \in Paths(containerItems) : Click(path)
    \/ \E i \in PaletteIdx : ClickPalette(i)
    \/ \E key \in PropKeys, value \in PropValues : handlePropertyChange(key, value)
    \/ handlePrintHtml

Spec == Init /\ [][Next]_vars

----------------------------------------------------------------------------
(* The tree functions on their own: each behaviour of FnSpec takes a tree  *)
(* from TreeSet and applies one of the functions to it once.               *)

\* The forests of exactly n nodes over TreeIds (ids may repeat) and TreeTypes;
\* a node with children has a container type.
RECURSIVE Forests(_)
Forests(n) ==
    IF n = 0 THEN { << >> }
    ELSE UNION { UNION { UNION {
            { <<[id |-> i, type |-> t, props |-> NoProps, children |-> c]>> \o rest :
                 i \in TreeIds, rest \in Forests(n - k) } :
              t \in { u \in TreeTypes : c = << >> \/ canHaveChildren[u] } } :
              c \in Forests(k - 1) } : k \in 1..n }

TreeSet == UNION { Forests(n) : n \in 0..MaxTreeNodes }

\* The nodes handed to addItem: a childless Div with any id.
NewItems ==
    { [id |-> i, type |-> "Div", props |-> NoProps, children |-> << >>] :
         i \in TreeIds \cup {AbsentId} }

FnInit ==
    /\ containerItems \in TreeSet
    /\ availableItems = initialItems(IdsOf(containerItems))
    /\ selectedItem = << >>
    /\ dragged = << >>
    /\ last = Event("init", "none", FALSE)
    /\ call = NoCall

ApplyRemoveItem(id) ==
    /\ call.fn = "none"
    /\ LET result == removeItem(containerItems, id)
       IN  /\ call' = [fn |-> "removeItem", items |-> containerItems, id |-> id,
                       newItem |-> << >>, parentId |-> 0, key |-> "", value |-> "",
                       result |-> result, html |-> "",
                       pending |-> {}, sameObject |-> TRUE, parity |-> 0]
           /\ containerItems' = result
    /\ UNCHANGED <<availableItems, selectedItem, dragged, last>>

ApplyAddItem(newItem, parentId) ==
    /\ call.fn = "none"
    /\ LET result == addItem(containerItems, newItem, parentId)
       IN  /\ call' = [fn |-> "addItem", items |-> containerItems, id |-> newItem.id,
                       newItem |-> <<newItem>>, parentId |-> parentId,
                       key |-> "", value |-> "", result |-> result, html |-> "",
                       pending |-> {}, sameObject |-> TRUE, parity |-> 0]
           /\ containerItems' = result
    /\ UNCHANGED <<availableItems, selectedItem, dragged, last>>

\* moveItem on the payload useDrag builds for the item at `path` (line 120)
ApplyMoveItem(path, newParentId) ==
    /\ call.fn = "none"
    /\ LET item == NodeAt(containerItems, path)
           draggedItem == [id |-> item.id, type |-> item.type, props |-> item.props,
                           children |-> item.children,
                           parentId |-> ParentIdAt(containerItems, path),
                           origin |-> "tree"]
           result == moveItem(containerItems, draggedItem, newParentId)
       IN  /\ call' = [fn |-> "moveItem", items |-> containerItems, id |-> item.id,
                       newItem |-> <<item>>, parentId |-> newParentId,
                       key |-> "", value |-> "", result |-> result, html |-> "",
                       pending |-> {}, sameObject |-> TRUE, parity |-> 0]
           /\ containerItems' = result
    /\ UNCHANGED <<availableItems, selectedItem, dragged, last>>

ApplyRenderHtml ==
    /\ call.fn = "none"
    /\ call' = [NoCall EXCEPT !.fn = "renderHtml", !.items = containerItems,
                               !.result = containerItems,
                               !.html = renderHtml(containerItems)]
    /\ UNCHANGED <<containerItems, availableItems, selectedItem, dragged, last>>

FnNext ==
    \/ \E id \in TreeIds \cup {AbsentId} : ApplyRemoveItem(id)
    \/ \E newItem \in NewItems, parentId \in {0} \cup TreeIds \cup {AbsentId} :
          ApplyAddItem(newItem, parentId)
    \/ \E path \in Paths(containerItems), newParentId \in {0} \cup TreeIds \cup {AbsentId} :
          ApplyMoveItem(path, newParentId)
    \/ ApplyRenderHtml

FnSpec == FnInit /\ [][FnNext]_vars

----------------------------------------------------------------------------
(* The state updater of handlePropertyChange on its own: each behaviour of *)
(* EditSpec takes a tree from TreeSet and applies updateItemProps to it    *)
(* repeatedly, for any selected id and any key.                            *)

ApplyUpdateItemProps(selId, key, value) ==
    /\ call.fn \in {"none", "updateItemProps"}
    /\ PropsCount(containerItems) < MaxFnProps
    /\ LET result == updateItemProps(containerItems, selId, key, value)
       IN  /\ call' = [NoCall EXCEPT !.fn = "updateItemProps", !.items = containerItems,
                                      !.id = selId, !.key = key, !.value = value,
                                      !.result = result]
           /\ containerItems' = result
    /\ UNCHANGED <<availableItems, selectedItem, dragged, last>>

EditNext ==
    \E selId \in TreeIds \cup {AbsentId}, key \in FnKeys, value \in FnValues :
        ApplyUpdateItemProps(selId, key, value)

EditSpec == FnInit /\ [][EditNext]_vars

----------------------------------------------------------------------------
(* One drag gesture on its own: each behaviour of GestureSpec starts with  *)
(* a tree with unique ids from TreeSet and the payload of a drag that has  *)
(* just started on one of its nodes, and goes on with hovers over the      *)
(* nodes of the tree.  `call` keeps the tree, the payload's id and its     *)
(* parentId as they were when the drag started.                            *)

GestureInit ==
    \E items \in { t \in TreeSet : Cardinality(IdsOf(t)) = NodeCount(t) } :
        \E path \in Paths(items) :
            LET item == NodeAt(items, path)
            IN  /\ containerItems = items
                /\ availableItems = initialItems(IdsOf(items))
                /\ selectedItem = << >>
                /\ dragged = <<[id |-> item.id, type |-> item.type, props |-> item.props,
                                 children |-> item.children,
                                 parentId |-> ParentIdAt(items, path),
                                 origin |-> "tree"]>>
                /\ last = Event("dragStart", "tree", FALSE)
                /\ call = [NoCall EXCEPT !.fn = "dragStart", !.items = items,
                                          !.id = item.id, !.newItem = <<item>>,
                                          !.parentId = ParentIdAt(items, path)]

GestureNext ==
    \E path \in Paths(containerItems), g \in BOOLEAN, y \in 0..HoverHeight :
        Hover(path, g, y)

GestureSpec == GestureInit /\ [][GestureNext]_vars

----------------------------------------------------------------------------
(* One drag gesture that starts on the palette: each behaviour of          *)
(* PaletteGestureSpec starts with a tree with unique ids from TreeSet and  *)
(* the payload of a drag that has just started on a palette item, goes on  *)
(* with hovers and ends with a drop or a cancel.  `call` keeps the tree    *)
(* and the payload as they were when the drag started.                     *)

PaletteGestureInit ==
    \E items \in { t \in TreeSet : Cardinality(IdsOf(t)) = NodeCount(t) } :
        \E i \in PaletteIdx :
            LET palette == initialItems(IdsOf(items))
                item == palette[i]
            IN  /\ containerItems = items
                /\ availableItems = palette
                /\ selectedItem = << >>
                /\ dragged = <<[id |-> item.id, type |-> item.type, props |-> item.props,
                                 children |-> item.children, parentId |-> 0,
                                 origin |-> "palette"]>>
                /\ last = Event("dragStart", "palette", FALSE)
                /\ call = [NoCall EXCEPT !.fn = "dragStart", !.items = items,
                                          !.id = item.id, !.newItem = <<item>>]

PaletteGestureNext ==
    \/ \E path \in Paths(containerItems), g \in BOOLEAN, y \in 0..HoverHeight :
          Hover(path, g, y)
    \/ \E i \in PaletteIdx, g \in BOOLEAN, y \in 0..HoverHeight :
          HoverPalette(i, g, y)
    \/ DropCanvas
    \/ DropNode
    \/ DropTrash
    \/ DragCancel

PaletteGestureSpec == PaletteGestureInit /\ [][PaletteGestureNext]_vars

----------------------------------------------------------------------------
(* The effects as steps of their own: EffectSpec starts as the app does,   *)
(* handles an event with the state setters of the handler alone, and then  *)
(* runs the effects React has scheduled; the next event is handled when    *)
(* none is scheduled any more:                                             *)
(*   - call.pending holds the effects whose dependencies have changed      *)
(*     ("selection": lines 343-363, deps containerItems and selectedItem;  *)
(*     "palette": lines 415-417, deps containerItems);                     *)
(*   - call.sameObject tells whether selectedItem is the very object that  *)
(*     findItemById returns, in which case setSelectedItem does not change *)
(*     the state.  After an update of the tree an unchanged node may or    *)
(*     may not be the same object, so both cases are taken;                *)
(*   - call.parity is the parity of the number of effect runs;             *)
(*   - call.newItem keeps the selection the event found.                   *)

EffectInit ==
    /\ containerItems = << >>
    /\ availableItems = initialItems({})
    /\ selectedItem = << >>
    /\ dragged = << >>
    /\ last = Event("init", "none", FALSE)
    /\ call = NoCall

\* setContainerItems(updater) called by the handler `op`
EventSetsTree(op, items) ==
    /\ call.pending = {}
    /\ containerItems' = items
    /\ \E same \in IF selectedItem = << >> THEN {TRUE}
                   ELSE IF findItemById(items, selectedItem[1].id) = selectedItem
                        THEN BOOLEAN ELSE {FALSE} :
          call' = [NoCall EXCEPT !.fn = op, !.items = containerItems,
                                 !.newItem = selectedItem,
                                 !.pending = {"selection", "palette"},
                                 !.sameObject = same]
    /\ UNCHANGED <<availableItems, selectedItem, dragged, last>>

\* setSelectedItem(...) called by handleItemClick (line 395) for `item`
EventClick(item) ==
    /\ call.pending = {}
    /\ selectedItem' = handleItemClick(selectedItem, item)
    /\ call' = [NoCall EXCEPT !.fn = "handleItemClick", !.items = containerItems,
                               !.newItem = selectedItem,
                               !.pending = {"selection"},
                               !.sameObject =
                                   \/ selectedItem' = << >>
                                   \/ findItemById(containerItems, item.id) = <<item>>]
    /\ UNCHANGED <<containerItems, availableItems, dragged, last>>

\* Variant of RunSelectionEffect in which the object found never is the
\* selected object.
RunSelectionEffect_neverSame ==
    /\ "selection" \in call.pending
    /\ IF selectedItem = << >>
       THEN /\ UNCHANGED selectedItem
            /\ call' = [call EXCEPT !.pending = @ \ {"selection"}, !.parity = 1 - @]
       ELSE /\ selectedItem' = findItemById(containerItems, selectedItem[1].id)
            /\ call' = [call EXCEPT !.parity = 1 - @]
    /\ UNCHANGED <<containerItems, availableItems, dragged, last>>

\* One run of the selection effect (lines 359-362).  setSelectedItem with the
\* object that is selected already leaves the state as it is; with another
\* object, or with null, it changes selectedItem, a dependency of this effect,
\* and the effect is scheduled again.
RunSelectionEffect ==
    /\ "selection" \in call.pending
    /\ IF selectedItem = << >>
       THEN /\ UNCHANGED selectedItem
            /\ call' = [call EXCEPT !.pending = @ \ {"selection"}, !.parity = 1 - @]
       ELSE /\ selectedItem' = findItemById(containerItems, selectedItem[1].id)
            /\ call' = IF call.sameObject
                       THEN [call EXCEPT !.pending = @ \ {"selection"}, !.parity = 1 - @]
                       ELSE [call EXCEPT !.sameObject = TRUE, !.parity = 1 - @]
    /\ UNCHANGED <<containerItems, availableItems, dragged, last>>

\* One run of the palette effect (lines 415-417): availableItems is not among
\* its dependencies, so it is not scheduled again.
RunPaletteEffect ==
    /\ "palette" \in call.pending
    /\ availableItems' = initialItems(IdsOf(containerItems))
    /\ call' = [call EXCEPT !.pending = @ \ {"palette"}, !.parity = 1 - @]
    /\ UNCHANGED <<containerItems, selectedItem, dragged, last>>

EffectNext ==
    \/ \E path \in Paths(containerItems) :
          EventSetsTree("handleTrashDrop",
                        handleTrashDrop(containerItems, NodeAt(containerItems, path)))
    \/ \E path \in Paths(containerItems), target \in Paths(containerItems) :
          /\ canHaveChildren[NodeAt(containerItems, target).type]
          /\ NodeAt(containerItems, target).id # NodeAt(containerItems, path).id
          /\ NodeAt(containerItems, target).id # ParentIdAt(containerItems, path)
          /\ EventSetsTree("moveItem",
                           moveItem(containerItems, NodeAt(containerItems, path),
                                    NodeAt(containerItems, target).id))
    \/ \E i \in PaletteIdx :
          /\ NodeCount(containerItems) < MaxNodes
          /\ EventSetsTree("handleDrop",
                        handleDrop(containerItems, availableItems[i],
                                   uuidv4(IdsOf(containerItems) \cup {availableItems[i].id}, 1)))
    \/ \E key \in PropKeys, value \in PropValues :
          /\ selectedItem # << >>
          /\ key \in editableProps[selectedItem[1].type]
          /\ \/ selectedItem[1].props[key] # "undefined"
             \/ PropsCount(containerItems) < MaxProps
          /\ EventSetsTree("handlePropertyChange",
                           updateItemProps(containerItems, selectedItem[1].id, key, value))
    \/ \E path \in Paths(containerItems) : EventClick(NodeAt(containerItems, path))
    \/ \E i \in PaletteIdx : EventClick(availableItems[i])
    \/ RunSelectionEffect
    \/ RunPaletteEffect

\* React runs the effects it has scheduled.
EffectSpec ==
    /\ EffectInit
    /\ [][EffectNext]_vars
    /\ WF_vars(RunSelectionEffect)
    /\ WF_vars(RunPaletteEffect)

----------------------------------------------------------------------------
(* Vocabulary of the properties                                            *)

\* No two nodes of the tree have the same id.
UniqueIds(items) == Cardinality(IdsOf(items)) = Len(IdSeq(items))

\* The pre-order list of [id, type, props, parent] entries of a tree.
RECURSIVE Flat(_, _)
Flat(items, parent) ==
    IF items = << >> THEN << >>
    ELSE LET h == Head(items)
         IN  <<[id |-> h.id, type |-> h.type, props |-> h.props, parent |-> parent]>>
             \o Flat(h.children, h.id) \o Flat(Tail(items), parent)

\* The number of nodes of a tree whose id is `id`.
Occurrences(items, id) ==
    Cardinality({ k \in 1..Len(IdSeq(items)) : IdSeq(items)[k] = id })

\* The position of the node with id `id` in a tree that holds it once.
PathOf(items, id) == CHOOSE p \in Paths(items) : NodeAt(items, p).id = id

\* The node at `path`, or one of its ancestors, has id `id`.
OnOrBelow(items, path, id) ==
    \E k \in 1..Len(path) : NodeAt(items, SubSeq(path, 1, k)).id = id

\* The pre-order entries of a tree, leaving out every node with id `id`
\* together with the nodes below it.
RECURSIVE FlatExcept(_, _, _)
FlatExcept(items, parent, id) ==
    IF items = << >> THEN << >>
    ELSE LET h == Head(items)
         IN  IF h.id = id THEN FlatExcept(Tail(items), parent, id)
             ELSE <<[id |-> h.id, type |-> h.type, props |-> h.props, parent |-> parent]>>
                  \o FlatExcept(h.children, h.id, id)
                  \o FlatExcept(Tail(items), parent, id)

\* A tree with every props map emptied: its ids, types, nesting and order.
RECURSIVE WithoutProps(_)
WithoutProps(items) ==
    [i \in 1..Len(items) |->
        [items[i] EXCEPT !.props = NoProps, !.children = WithoutProps(items[i].children)]]

\* Some node with id `id` lies below another node with that id.
SelfNested(items, id) ==
    \E p \in Paths(items) :
        /\ NodeAt(items, p).id = id
        /\ \E k \in 1..(Len(p) - 1) : NodeAt(items, SubSeq(p, 1, k)).id = id

\* A tree with every id and every props map erased: its shape and its types.
RECURSIVE ShapeOf(_)
ShapeOf(items) ==
    [i \in 1..Len(items) |->
        [id |-> 0, type |-> items[i].type, props |-> NoProps,
         children |-> ShapeOf(items[i].children)]]

\* The text of a tree: for each node in order, its opening tag, the text of
\* its children and its closing tag.
RECURSIVE Serialized(_)
Serialized(items) ==
    IF items = << >> THEN ""
    ELSE LET h == Head(items)
         IN  "<" \o h.type \o ">" \o Serialized(h.children) \o "</" \o h.type \o ">"
             \o Serialized(Tail(items))

\* The nodes with ids a and b are in one children sequence (or both at root),
\* a in front of b.
InOrder(items, a, b) ==
    \E children \in {items} \cup { NodeAt(items, p).children : p \in Paths(items) } :
        \E i, j \in 1..Len(children) :
            i < j /\ children[i].id = a /\ children[j].id = b

----------------------------------------------------------------------------
(* Properties of the application (Spec)                                    *)

\* C1: in every reachable state no two nodes of the tree, at any depth, have
\* the same id.
C1_UniqueIds == UniqueIds(containerItems)

\* C2: while the payload is a node P of the tree, a hover over P or over a
\* descendant of P, for every pointer position and target type, leaves the
\* tree unchanged.
C2_ReparentingGuard ==
    [][\A path \in Paths(containerItems), g \in BOOLEAN, y \in 0..HoverHeight :
          ( /\ Hover(path, g, y)
            /\ dragged[1].origin = "tree"
            /\ OnOrBelow(containerItems, path, dragged[1].id) )
          => containerItems' = containerItems]_vars

\* C3: a canvas-background drop of a payload that came from a node of the tree
\* is a true move: afterwards exactly one node has the payload's id, that node
\* is at root level, no new id has appeared and the node count has not grown.
C3_CanvasDropIsMove ==
    [][( /\ DropCanvas
         /\ dragged[1].origin = "tree"
         /\ dragged[1].id \in IdsOf(containerItems) )
       => /\ Occurrences(containerItems', dragged[1].id) = 1
          /\ \E i \in 1..Len(containerItems') : containerItems'[i].id = dragged[1].id
          /\ IdsOf(containerItems') \subseteq IdsOf(containerItems)
          /\ NodeCount(containerItems') <= NodeCount(containerItems)]_vars

\* C4: a canvas-background drop of a palette payload appends exactly one node
\* at the end of the root sequence; the node has the payload's type and an id
\* that differs from the palette item's id and from every id of the tree; all
\* nodes that were there stay where they were.
C4_PaletteCanvasDrop ==
    [][( /\ DropCanvas
         /\ dragged[1].origin = "palette" )
       => /\ Len(containerItems') = Len(containerItems) + 1
          /\ SubSeq(containerItems', 1, Len(containerItems)) = containerItems
          /\ NodeCount(containerItems') = NodeCount(containerItems) + 1
          /\ LET item == containerItems'[Len(containerItems')]
             IN  /\ item.type = dragged[1].type
                 /\ item.id # dragged[1].id
                 /\ item.id \notin IdsOf(containerItems)]_vars

\* A palette payload was dropped on the canvas background of a tree that held
\* a nested node, and a node was appended.
C4_Witness ==
    /\ last.op = "canvasDrop" /\ last.origin = "palette" /\ last.changed
    /\ \E p \in Paths(containerItems) : Len(p) = 2

\* C10: after a drop on the trash target, for a payload of any origin, no node
\* of the tree has the payload's id, and every node that is neither such a node
\* nor below one keeps its parent, its props and its place among its siblings.
C10_TrashDrop ==
    [][DropTrash
       => /\ dragged[1].id \notin IdsOf(containerItems')
          /\ Flat(containerItems', 0) = FlatExcept(containerItems, 0, dragged[1].id)]_vars

\* A palette payload that a hover had inserted was dropped on the trash, and
\* other nodes remain.
C10_Witness ==
    /\ last.op = "trashDrop" /\ last.origin = "palette" /\ last.changed
    /\ \E p \in Paths(containerItems) : Len(p) = 2

\* C11: a hover over a target whose id equals the payload's id or the
\* payload's recorded parent id leaves the tree and the payload unchanged,
\* whatever the pointer position; and after every hover in the lower half of a
\* container the container is such a target, so that a second hover over it
\* changes nothing.
C11_HoverNoOpGuard ==
    [][/\ \A path \in Paths(containerItems), g \in BOOLEAN, y \in 0..HoverHeight :
             (last'.op \in {"hover", "hoverGuard", "hoverUpper"} /\ Hover(path, g, y))
             => LET item == NodeAt(containerItems, path)
                IN  /\ (dragged[1].id = item.id \/ dragged[1].parentId = item.id)
                          => /\ containerItems' = containerItems
                             /\ dragged' = dragged
                    /\ (g /\ 2 * y > HoverHeight /\ DefOf(item.type).canHaveChildren)
                          => (dragged'[1].id = item.id \/ dragged'[1].parentId = item.id)
       /\ \A i \in PaletteIdx, g \in BOOLEAN, y \in 0..HoverHeight :
             ( /\ last'.op = "hoverPalette"
               /\ HoverPalette(i, g, y)
               /\ \/ dragged[1].id = availableItems[i].id
                  \/ dragged[1].parentId = availableItems[i].id )
             => /\ containerItems' = containerItems
                /\ dragged' = dragged]_vars

\* A Button taken from the palette was put under a container of the tree by a
\* hover, and a further hover in the lower half of a container was stopped by
\* the guard: the target was the payload's recorded parent.
C11_Witness ==
    /\ last.op = "hoverGuard" /\ last.origin = "palette"
    /\ dragged # << >>
    /\ dragged[1].type = "Button"
    /\ dragged[1].parentId \in IdsOf(containerItems)

\* C12: in every state the selection is none or equals, in id and in props, a
\* node that is in the tree; so once no node of the tree has the selected id
\* (after a trash drop or any other removal) the selection is none.
C12_SelectionResolved ==
    \/ selectedItem = << >>
    \/ \E p \in Paths(containerItems) :
          /\ NodeAt(containerItems, p).id = selectedItem[1].id
          /\ NodeAt(containerItems, p).props = selectedItem[1].props

\* A trash drop took the selection from a node to none and left other nodes in
\* the tree.
C12_Witness ==
    /\ last.op = "trashDrop" /\ last.changed /\ last.deselected
    /\ selectedItem = << >>
    /\ containerItems # << >>

\* C13: selecting an id that is not in the tree is a no-op: when a node of the
\* tree is selected, a click on an item whose id is not in the tree (a palette
\* item) leaves the selection as it was.
C13_SelectUnknownIsNoOp ==
    [][\A i \in PaletteIdx :
          ( /\ ClickPalette(i)
            /\ selectedItem # << >>
            /\ availableItems[i].id \notin IdsOf(containerItems) )
          => selectedItem' = selectedItem]_vars

\* C14: a click on a node of the tree with id i selects i when nothing is
\* selected, returns the selection to none when i is selected, and selects i
\* when a node with another id is selected; no click changes the tree.
C14_SelectionToggle ==
    [][/\ last'.op \in {"click", "clickPalette"} => containerItems' = containerItems
       /\ \A path \in Paths(containerItems) :
          (last'.op = "click" /\ Click(path))
          => LET item == NodeAt(containerItems, path)
             IN  /\ containerItems' = containerItems
                 /\ (selectedItem = << >>)
                       => (selectedItem' # << >> /\ selectedItem'[1].id = item.id)
                 /\ (selectedItem # << >> /\ selectedItem[1].id = item.id)
                       => (selectedItem' = << >>)
                 /\ (selectedItem # << >> /\ selectedItem[1].id # item.id)
                       => (selectedItem' # << >> /\ selectedItem'[1].id = item.id)]_vars

\* The second of two clicks on a nested node took the selection back to none.
C14_Witness ==
    /\ last.op = "click" /\ last.deselected
    /\ selectedItem = << >>
    /\ \E p \in Paths(containerItems) : Len(p) = 2

\* C17: the text renderHtml gives for a tree is the text it gives for the
\* tree's shape and types alone, so two trees of the same shape with the same
\* type at every position have the same text, whatever their ids and props;
\* and no property edit and no click changes the text.
C17_SerializationIgnoresProps ==
    [][/\ renderHtml(containerItems') = renderHtml(ShapeOf(containerItems'))
       /\ last'.op \in {"propertyChange", "click", "clickPalette"}
             => renderHtml(containerItems') = renderHtml(containerItems)]_vars

\* A property edit changed the props of a nested node.
C17_Witness ==
    /\ last.op = "propertyChange" /\ last.changed
    /\ \E p \in Paths(containerItems) :
          Len(p) = 2 /\ NodeAt(containerItems, p).props # NoProps

\* C19: in every reachable state every node of a type that cannot have
\* children (Button, Input, Text) has an empty children sequence.
C19_LeavesHaveNoChildren ==
    /\ { t \in Types : ~DefOf(t).canHaveChildren } = {"Button", "Input", "Text"}
    /\ \A p \in Paths(containerItems) :
          NodeAt(containerItems, p).type \in {"Button", "Input", "Text"}
          => NodeAt(containerItems, p).children = << >>

\* A palette payload has hovered over a tree that consists of leaf nodes only.
C19_Witness ==
    /\ last.op \in {"hover", "hoverUpper"} /\ last.origin = "palette"
    /\ dragged # << >>
    /\ containerItems # << >>
    /\ \A p \in Paths(containerItems) : NodeAt(containerItems, p).type = "Button"

\* C20: every step (hover, canvas drop, trash drop, property edit, click)
\* preserves the order of children: two nodes that are siblings before the step
\* and siblings after it are in the same order before and after.  (Stated for
\* the steps between trees with unique ids.)
C20_OrderPreserved ==
    [][(UniqueIds(containerItems) /\ UniqueIds(containerItems'))
       => \A a, b \in IdsOf(containerItems) :
             (InOrder(containerItems, a, b) /\ InOrder(containerItems', b, a))
             => FALSE]_vars

\* C21: the step that ends a gesture by a release outside every target changes
\* neither the tree nor the selection.
C21_CancelChangesNothing ==
    [][DragCancel
       => /\ containerItems' = containerItems
          /\ selectedItem' = selectedItem]_vars

\* A gesture that started on the palette was cancelled while a nested node of
\* the tree was selected.
C21_Witness ==
    /\ last.op = "cancel" /\ last.origin = "palette"
    /\ dragged = << >>
    /\ selectedItem # << >>
    /\ \E p \in Paths(containerItems) :
          Len(p) = 2 /\ NodeAt(containerItems, p).id = selectedItem[1].id

\* C22: a hover changes the tree only if the pointer is strictly below the
\* vertical midpoint of the target, the target's type can have children, and
\* the target is neither the payload nor its recorded parent; a hover at or
\* above the midpoint of any target, or anywhere over a target of a leaf type,
\* leaves the tree and the payload's parentId as they were.
C22_HoverGeometry ==
    [][/\ \A path \in Paths(containerItems), g \in BOOLEAN, y \in 0..HoverHeight :
             (last'.op \in {"hover", "hoverGuard", "hoverUpper"} /\ Hover(path, g, y))
             => LET item == NodeAt(containerItems, path)
                IN  /\ (containerItems' # containerItems)
                          => /\ 2 * y > HoverHeight
                             /\ DefOf(item.type).canHaveChildren
                             /\ dragged[1].id # item.id
                             /\ dragged[1].parentId # item.id
                    /\ (2 * y <= HoverHeight \/ ~DefOf(item.type).canHaveChildren)
                          => /\ containerItems' = containerItems
                             /\ dragged'[1].parentId = dragged[1].parentId
       /\ \A i \in PaletteIdx, g \in BOOLEAN, y \in 0..HoverHeight :
             (last'.op = "hoverPalette" /\ HoverPalette(i, g, y))
             => /\ containerItems' = containerItems
                /\ (2 * y <= HoverHeight \/ ~DefOf(availableItems[i].type).canHaveChildren)
                      => dragged'[1].parentId = dragged[1].parentId]_vars

\* A palette payload that has no recorded parent was hovered, at or above the
\* midpoint, over a tree that consists of containers only: the target was a
\* container other than the payload and its parent, and nothing moved.
C22_Witness ==
    /\ last.op = "hoverUpper" /\ last.origin = "palette"
    /\ dragged # << >>
    /\ dragged[1].parentId = 0
    /\ containerItems # << >>
    /\ \A p \in Paths(containerItems) : NodeAt(containerItems, p).type = "Div"

\* C23: a drop released over a rendered node does not run the root-insert
\* handler: that step leaves the tree as it was, so a palette payload that no
\* hover had inserted adds nothing; and a drop on the canvas background runs
\* the handler once, which appends at most one root node.
C23_DropConsumedByNode ==
    [][/\ DropNode => containerItems' = containerItems
       /\ DropCanvas
             => \/ containerItems' = containerItems
                \/ /\ Len(containerItems') = Len(containerItems) + 1
                   /\ SubSeq(containerItems', 1, Len(containerItems)) = containerItems]_vars

\* A palette payload was released over a node while the tree was a single
\* Button: no hover can have inserted the payload, and nothing was added.
C23_Witness ==
    /\ last.op = "nodeDrop" /\ last.origin = "palette"
    /\ dragged = << >>
    /\ Len(containerItems) = 1
    /\ containerItems[1].type = "Button"

\* C25: in every state the palette holds exactly one item per registry type
\* (Button, Input, Text, Div, Row, Column), in registry order, each with empty
\* props and no children, and no palette item has the id of a node of the
\* tree.
C25_PaletteComplete ==
    /\ [i \in 1..Len(availableItems) |-> availableItems[i].type]
          = <<"Button", "Input", "Text", "Div", "Row", "Column">>
    /\ [i \in 1..Len(componentDefinitions) |-> componentDefinitions[i].type]
          = <<"Button", "Input", "Text", "Div", "Row", "Column">>
    /\ \A i \in 1..Len(availableItems) :
          /\ availableItems[i].props = NoProps
          /\ availableItems[i].children = << >>
          /\ availableItems[i].id \notin IdsOf(containerItems)

\* A hover has inserted a palette payload into the tree under the id it had
\* in the palette, and the gesture goes on.
C25_Witness ==
    /\ last.op = "hover" /\ last.origin = "palette" /\ last.changed
    /\ dragged # << >>
    /\ dragged[1].id \in IdsOf(containerItems)

----------------------------------------------------------------------------
(* Properties of the tree functions (FnSpec)                               *)

\* C5 as stated: removing an id that is present in a tree with unique ids
\* removes exactly one node, whether or not the node has children, and leaves
\* everything else as it was.
C5_RemovesExactlyOne ==
    ( /\ call.fn = "removeItem"
      /\ UniqueIds(call.items)
      /\ call.id \in IdsOf(call.items) )
    => /\ NodeCount(call.result) = NodeCount(call.items) - 1
       /\ call.id \notin IdsOf(call.result)

\* C5, amended: removing an id that is present in a tree with unique ids
\* removes that node together with its descendants (the node count decreases
\* by the size of its subtree, by exactly 1 for a childless node) and leaves
\* the sibling order and all other subtrees untouched; R[X, Y[Z]] with Z
\* removed yields R[X, Y[]].
C5_RemovesSubtree ==
    /\ ( /\ call.fn = "removeItem"
         /\ UniqueIds(call.items)
         /\ call.id \in IdsOf(call.items) )
       => LET node == NodeAt(call.items, PathOf(call.items, call.id))
          IN  /\ NodeCount(call.result)
                    = NodeCount(call.items) - (1 + NodeCount(node.children))
              /\ Flat(call.result, 0) = FlatExcept(call.items, 0, call.id)
    /\ LET N(i, t, c) == [id |-> i, type |-> t, props |-> NoProps, children |-> c]
       IN  removeItem(<<N(1, "Div", <<N(2, "Button", << >>),
                                      N(3, "Div", <<N(4, "Text", << >>)>>)>>)>>, 4)
              = <<N(1, "Div", <<N(2, "Button", << >>), N(3, "Div", << >>)>>)>>

\* A nested node that has a child was removed from a tree with unique ids.
C5_Witness ==
    /\ call.fn = "removeItem"
    /\ UniqueIds(call.items)
    /\ \E p \in Paths(call.items) :
          /\ Len(p) = 2
          /\ NodeAt(call.items, p).id = call.id
          /\ NodeAt(call.items, p).children # << >>
    /\ NodeCount(call.result) = NodeCount(call.items) - 2

\* C6: for every tree T and every id i that occurs nowhere in T,
\* removeItem(T, i) equals T.
C6_RemoveUnknownId ==
    ( /\ call.fn = "removeItem"
      /\ call.id \notin IdsOf(call.items) )
    => call.result = call.items

\* An id that is not in a tree with nested nodes was removed from it.
C6_Witness ==
    /\ call.fn = "removeItem"
    /\ call.id \notin IdsOf(call.items)
    /\ \E p \in Paths(call.items) : Len(p) = 3

\* C7: for a tree T with unique ids, a node N with a fresh id and the id p of a
\* node of T whose type can have children, addItem(T, N, p) holds N exactly
\* once, as the last child of p, and every other children sequence is as it was.
C7_AddUnderParent ==
    ( /\ call.fn = "addItem"
      /\ UniqueIds(call.items)
      /\ call.id \notin IdsOf(call.items)
      /\ call.parentId \in IdsOf(call.items)
      /\ canHaveChildren[NodeAt(call.items, PathOf(call.items, call.parentId)).type] )
    => LET path == PathOf(call.items, call.parentId)
           before == NodeAt(call.items, path).children
       IN  /\ Occurrences(call.result, call.id) = 1
           /\ NodeAt(call.result, path).id = call.parentId
           /\ NodeAt(call.result, path).children = Append(before, call.newItem[1])
           /\ FlatExcept(call.result, 0, call.id) = Flat(call.items, 0)

\* A node was added under a nested container that already had a child.
C7_Witness ==
    /\ call.fn = "addItem"
    /\ UniqueIds(call.items)
    /\ call.id \notin IdsOf(call.items)
    /\ \E p \in Paths(call.items) :
          /\ Len(p) = 2
          /\ NodeAt(call.items, p).id = call.parentId
          /\ canHaveChildren[NodeAt(call.items, p).type]
          /\ Len(NodeAt(call.items, p).children) = 1
          /\ Len(NodeAt(call.result, p).children) = 2

\* C8: addItem(T, N, p) with a non-null p that matches no node of T returns T;
\* with p null it appends N at the end of the root sequence and changes
\* nothing else.
C8_LenientInsert ==
    call.fn = "addItem"
    => /\ (call.parentId # 0 /\ call.parentId \notin IdsOf(call.items))
             => call.result = call.items
       /\ call.parentId = 0 => call.result = Append(call.items, call.newItem[1])

\* A node was added under a parent id that a tree with nested nodes lacks.
C8_Witness ==
    /\ call.fn = "addItem"
    /\ call.parentId # 0
    /\ call.parentId \notin IdsOf(call.items)
    /\ \E p \in Paths(call.items) : Len(p) = 2

\* C9: for a tree with unique ids, a node N of it and a target id p of it that
\* is neither N nor below N, moveItem(N, p) yields a tree that holds N exactly
\* once, as the last child of p, with N's subtree as it was, and with the same
\* set of node ids.
C9_MoveCarriesSubtree ==
    ( /\ call.fn = "moveItem"
      /\ UniqueIds(call.items)
      /\ call.parentId \in IdsOf(call.items)
      /\ call.parentId \notin IdsOf(call.newItem) )
    => LET path == PathOf(call.result, call.parentId)
           children == NodeAt(call.result, path).children
       IN  /\ call.parentId \in IdsOf(call.result)
           /\ Occurrences(call.result, call.id) = 1
           /\ children # << >>
           /\ children[Len(children)] = call.newItem[1]
           /\ IdsOf(call.result) = IdsOf(call.items)
           /\ UniqueIds(call.result)
           /\ FlatExcept(call.result, 0, call.id) = FlatExcept(call.items, 0, call.id)

\* A node with a child was moved under a container that had a child already.
C9_Witness ==
    /\ call.fn = "moveItem"
    /\ UniqueIds(call.items)
    /\ call.parentId \in IdsOf(call.items)
    /\ call.parentId \notin IdsOf(call.newItem)
    /\ call.newItem[1].children # << >>
    /\ call.result # call.items

\* C16: for every tree, renderHtml returns the concatenation, in root order,
\* of the texts of the nodes, the text of a node of type T being <T>, the
\* texts of its children in order, and </T>, with T as the registry spells
\* it; [Row[Button, Text]] gives <Row><Button></Button><Text></Text></Row>.
C16_HtmlSerialization ==
    /\ call.fn = "renderHtml"
          => /\ call.html = Serialized(call.items)
             /\ \A p \in Paths(call.items) : NodeAt(call.items, p).type \in Types
    /\ LET N(i, t, c) == [id |-> i, type |-> t, props |-> NoProps, children |-> c]
       IN  renderHtml(<<N(1, "Row", <<N(2, "Button", << >>), N(3, "Text", << >>)>>)>>)
              = "<Row><Button></Button><Text></Text></Row>"

\* renderHtml was applied to a tree of two roots, the first of which has a
\* child.
C16_Witness ==
    /\ call.fn = "renderHtml"
    /\ Len(call.items) = 2
    /\ call.items[1].children # << >>
    /\ call.html = "<Div><Button></Button></Div><Button></Button>"

----------------------------------------------------------------------------
(* Properties of the state updater of handlePropertyChange (EditSpec)      *)

\* C15: with the id s of a node of the tree selected, at any depth, the tree
\* that handlePropertyChange(key, value) produces has props[key] = value at the
\* node of id s, for every key, editable for the node's type or not; the other
\* props of that node, the props of the nodes with another id, and the ids,
\* types, nesting and child order of the whole tree are as they were.  (The
\* trees are those in which no node of id s lies inside another node of id s.)
C15_SetProperty ==
    ( /\ call.fn = "updateItemProps"
      /\ call.id \in IdsOf(call.items)
      /\ ~SelfNested(call.items, call.id) )
    => LET before == Flat(call.items, 0)
           after == Flat(call.result, 0)
       IN  /\ WithoutProps(call.result) = WithoutProps(call.items)
           /\ Len(after) = Len(before)
           /\ \A n \in 1..Len(before) :
                 IF before[n].id = call.id
                 THEN /\ after[n].props[call.key] = call.value
                      /\ \A k \in PropKeys \ {call.key} :
                            after[n].props[k] = before[n].props[k]
                 ELSE after[n].props = before[n].props

\* A key that is editable for no type was set on a nested node that has a child
\* and already had another prop.
C15_Witness ==
    /\ call.fn = "updateItemProps"
    /\ call.key = "other"
    /\ call.result # call.items
    /\ \E p \in Paths(call.items) :
          /\ Len(p) = 2
          /\ NodeAt(call.items, p).id = call.id
          /\ NodeAt(call.items, p).children # << >>
          /\ NodeAt(call.items, p).props["text"] # "undefined"
          /\ NodeAt(call.result, p).props["other"] = call.value

----------------------------------------------------------------------------
(* Properties of a drag gesture (GestureSpec)                              *)

\* C18: in a tree with unique ids, a node N that was a child of container A
\* when the drag started, was moved by a hover under another container and is
\* moved by a hover back under A, is the last child of A, wherever it was
\* among A's children at the start; every other node has the parent and the
\* place among its siblings that it had when the drag started, so the other
\* children of A keep their order and the children of B are as before.
C18_RoundTripAppends ==
    ( /\ last.op = "hover" /\ last.changed
      /\ call.parentId # 0
      /\ dragged[1].parentId = call.parentId )
    => /\ call.parentId \in IdsOf(containerItems)
       /\ Occurrences(containerItems, call.id) = 1
       /\ LET children == NodeAt(containerItems,
                                  PathOf(containerItems, call.parentId)).children
          IN  /\ children # << >>
              /\ children[Len(children)] = call.newItem[1]
       /\ FlatExcept(containerItems, 0, call.id)
             = FlatExcept(call.items, 0, call.id)

\* The first of the two children of A went under its sibling container and
\* came back: it is now the second child of A.
C18_Witness ==
    /\ last.op = "hover" /\ last.changed
    /\ call.parentId # 0
    /\ dragged[1].parentId = call.parentId
    /\ LET before == NodeAt(call.items, PathOf(call.items, call.parentId)).children
           after == NodeAt(containerItems, PathOf(containerItems, call.parentId)).children
       IN  /\ Len(before) = 2 /\ before[1].id = call.id
           /\ Len(after) = 2 /\ after[2].id = call.id /\ after[1].id = before[2].id

----------------------------------------------------------------------------
(* Properties of a gesture that starts on the palette (PaletteGestureSpec) *)

\* C24: when a gesture that started on a palette item has ended, by a drop on
\* a node, on the canvas background or on the trash, or by a cancel, and
\* whatever hovers it made, the tree has at most one node more than it had
\* when the gesture started.
C24_PaletteGestureAddsOne ==
    dragged = << >> => NodeCount(containerItems) <= NodeCount(call.items) + 1

----------------------------------------------------------------------------
(* Properties of the effects (EffectSpec)                                  *)

\* C26: after an event (click, hover reparent, drop, trash drop, property
\* edit) the updates made by the selection effect and by the palette effect
\* come to an end: whenever an effect is scheduled, a state follows in which
\* none is.
C26_EffectsQuiesce == (call.pending # {}) ~> (call.pending = {})

\* The effects have come to rest after a trash drop that removed the selected
\* node: the selection is none.
C26_Witness ==
    /\ call.fn = "handleTrashDrop"
    /\ call.pending = {}
    /\ call.newItem # << >>
    /\ selectedItem = << >>
    /\ containerItems # << >>

====
